---- MODULE Spec2Model ----
(***************************************************************************)
(* A model of two parts of the dolt repository:                            *)
(*                                                                         *)
(*   - the patch ordering of the noms diff package (PatchSort.Less,        *)
(*     pathIsLess, pathPartCompare and the three per-variant comparers);   *)
(*   - MergeCommits of doltcore/env/actions/merge.go.                      *)
(*                                                                         *)
(* Three specifications share the variables:                               *)
(*   SpecCompare  draws operands and applies the comparison functions;     *)
(*   SpecSort     sorts a Patch through PatchSort's Less and Swap;         *)
(*   SpecMerge    runs MergeCommits twice on the same two commits.         *)
(* Each specification keeps the other parts' variables at rest.            *)
(***************************************************************************)
EXTENDS Integers, Sequences, FiniteSets, TLC

\* ------------------------------------------------------------------ bounds
\* FieldPath names are 0..MaxName (Go orders strings totally; the model keeps
\* the order, not the spelling).
MaxName == 1
\* IndexPath indices are the values 0..MaxIndex.
MaxIndex == 1
\* A hash is two bytes, each in 0..MaxByte.
MaxByte == 1
\* Paths compared by pathIsLess have at most MaxPathLen parts.
MaxPathLen == 2
\* A sorted Patch has at most MaxPatchLen differences.
MaxPatchLen == 3
\* Table names are 1..NumTables.
NumTables == 2

VARIABLES
    \* SpecCompare: the experiment, its three operands, the results
    exp, opA, opB, opC, cpc, cmp,
    \* SpecSort: PatchSort.patch, the sort's position, whether Swap has run
    patch, spc, moved,
    \* SpecMerge: the inputs (the ancestor's, cm1's and cm2's tables, the
    \* storage operations that fail), MergeCommits' locals, its result, the
    \* calls it made, and the first run's order and outcome
    ancRoot, cm1Root, cm2Root, brokenOps,
    tblNames, idx, root, tblToStats, mergedTable, stats, pc, ret, calls,
    run, first

compareVars == <<exp, opA, opB, opC, cpc, cmp>>
sortVars == <<patch, spc, moved>>
mergeVars == <<ancRoot, cm1Root, cm2Root, brokenOps, tblNames, idx, root,
               tblToStats, mergedTable, stats, pc, ret, calls, run, first>>
vars == <<compareVars, sortVars, mergeVars>>

\* ------------------------------------------------------- the path model
Names == 0..MaxName
Indices == 0..MaxIndex
Hashes == [1..2 -> 0..MaxByte]

FieldPath(name) == [kind |-> "FieldPath", Name |-> name]
IndexPath(index, intoKey) ==
    [kind |-> "IndexPath", Index |-> index, IntoKey |-> intoKey]
HashIndexPath(h, intoKey) ==
    [kind |-> "HashIndexPath", Hash |-> h, IntoKey |-> intoKey]

PathParts ==
    {FieldPath(n) : n \in Names}
    \cup {IndexPath(i, k) : i \in Indices, k \in BOOLEAN}
    \cup {HashIndexPath(h, k) : h \in Hashes, k \in BOOLEAN}

\* types.Value.Equals and types.Value.Less: value equality and ordering.
ValueEquals(v, w) == v = w
ValueLess(v, w) == v < w

\* bytes.Compare on two arrays of one length: the first differing byte decides.
BytesCompare(x, y) ==
    LET D == {i \in DOMAIN x : x[i] # y[i]}
    IN IF D = {} THEN 0
       ELSE LET k == CHOOSE i \in D : \A j \in D : i <= j
            IN IF x[k] < y[k] THEN -1 ELSE 1

\* fieldPathCompare with a FieldPath greater than an IndexPath.
fieldPathCompare_AfterIndex(pp, o) ==
    CASE o.kind = "FieldPath" ->
            IF pp.Name = o.Name THEN 0
            ELSE IF pp.Name < o.Name THEN -1 ELSE 1
      [] o.kind = "IndexPath" -> 1
      [] o.kind = "HashIndexPath" -> -1

fieldPathCompare(pp, o) ==
    CASE o.kind = "FieldPath" ->
            IF pp.Name = o.Name THEN 0
            ELSE IF pp.Name < o.Name THEN -1 ELSE 1
      [] o.kind = "IndexPath" -> -1
      [] o.kind = "HashIndexPath" -> -1

\* indexPathCompare without the IntoKey tie-break of equal indices.
indexPathCompare_NoIntoKey(pp, o) ==
    CASE o.kind = "FieldPath" -> 1
      [] o.kind = "IndexPath" ->
            IF ValueEquals(pp.Index, o.Index) THEN 0
            ELSE IF ValueLess(pp.Index, o.Index) THEN -1 ELSE 1
      [] o.kind = "HashIndexPath" -> -1

indexPathCompare(pp, o) ==
    CASE o.kind = "FieldPath" -> 1
      [] o.kind = "IndexPath" ->
            IF ValueEquals(pp.Index, o.Index)
            THEN IF pp.IntoKey = o.IntoKey THEN 0
                 ELSE IF pp.IntoKey THEN -1 ELSE 1
            ELSE IF ValueLess(pp.Index, o.Index) THEN -1 ELSE 1
      [] o.kind = "HashIndexPath" -> -1

\* hashIndexPathCompare with a HashIndexPath less than an IndexPath.
hashIndexPathCompare_BeforeIndex(pp, o) ==
    CASE o.kind = "FieldPath" -> 1
      [] o.kind = "IndexPath" -> -1
      [] o.kind = "HashIndexPath" ->
            LET bc == BytesCompare(pp.Hash, o.Hash)
            IN CASE bc = -1 -> -1
                 [] bc = 0 -> IF pp.IntoKey = o.IntoKey THEN 0
                              ELSE IF pp.IntoKey THEN -1 ELSE 1
                 [] bc = 1 -> 1

hashIndexPathCompare(pp, o) ==
    CASE o.kind = "FieldPath" -> 1
      [] o.kind = "IndexPath" -> 1
      [] o.kind = "HashIndexPath" ->
            LET bc == BytesCompare(pp.Hash, o.Hash)
            IN CASE bc = -1 -> -1
                 [] bc = 0 -> IF pp.IntoKey = o.IntoKey THEN 0
                              ELSE IF pp.IntoKey THEN -1 ELSE 1
                 [] bc = 1 -> 1

pathPartCompare(pp, pp2) ==
    CASE pp.kind = "FieldPath" -> fieldPathCompare(pp, pp2)
      [] pp.kind = "IndexPath" -> indexPathCompare(pp, pp2)
      [] pp.kind = "HashIndexPath" -> hashIndexPathCompare(pp, pp2)

\* The loop of pathIsLess from its i-th part on (i counts from 1).
RECURSIVE pathIsLessFrom(_, _, _)
pathIsLessFrom(p1, p2, i) ==
    IF i > Len(p1) THEN Len(p2) > Len(p1)
    ELSE IF Len(p2) = i - 1 THEN FALSE
    ELSE LET c == pathPartCompare(p1[i], p2[i])
         IN IF c = -1 THEN TRUE
            ELSE IF c = 1 THEN FALSE
            ELSE pathIsLessFrom(p1, p2, i + 1)

\* pathIsLess without the length test that ends the loop: a longer p1 reads on.
pathIsLess_LongerFirst(p1, p2) ==
    LET n == IF Len(p1) < Len(p2) THEN Len(p1) ELSE Len(p2)
        D == {i \in 1..n : pathPartCompare(p1[i], p2[i]) # 0}
    IN IF D = {} THEN Len(p1) > Len(p2)
       ELSE pathPartCompare(p1[CHOOSE i \in D : \A j \in D : i <= j],
                            p2[CHOOSE i \in D : \A j \in D : i <= j]) = -1

pathIsLess(p1, p2) == pathIsLessFrom(p1, p2, 1)

\* types.Path.Equals: the same parts in the same places.
PathEquals(p1, p2) == p1 = p2

ChangeTypes == {"Removed", "Modified", "Added"}
vals == [ct \in ChangeTypes |->
            CASE ct = "Removed" -> 0 [] ct = "Modified" -> 1 [] ct = "Added" -> 2]

\* PatchSort.Less with the change types ignored.
LessDiff_PathOnly(d1, d2) == pathIsLess(d1.Path, d2.Path)

\* PatchSort.Less with Added before Removed.
LessDiff_AddedFirst(d1, d2) ==
    IF PathEquals(d1.Path, d2.Path)
    THEN vals[d1.ChangeType] > vals[d2.ChangeType]
    ELSE pathIsLess(d1.Path, d2.Path)

\* PatchSort.Less on the two differences it is given by index.
LessDiff(d1, d2) ==
    IF PathEquals(d1.Path, d2.Path)
    THEN vals[d1.ChangeType] < vals[d2.ChangeType]
    ELSE pathIsLess(d1.Path, d2.Path)

Less(ps, i, j) == LessDiff(ps[i], ps[j])

Swap(ps, i, j) == [ps EXCEPT ![i] = ps[j], ![j] = ps[i]]

\* ------------------------------------------------- operands of SpecCompare
\* The parts the compared paths are built from: one of each variant, and the
\* two IntoKey flags at one index.
PathAlphabet ==
    {FieldPath(0), IndexPath(0, TRUE), IndexPath(0, FALSE),
     HashIndexPath(<<0, 1>>, FALSE)}

RECURSIVE SeqsUpTo(_, _)
SeqsUpTo(S, n) ==
    IF n = 0 THEN {<<>>}
    ELSE LET shorter == SeqsUpTo(S, n - 1)
         IN shorter \cup {Append(s, x) : s \in {t \in shorter : Len(t) = n - 1}, x \in S}

Paths == SeqsUpTo(PathAlphabet, MaxPathLen)

\* The paths of the differences compared and sorted: the root, two fields of
\* it and an entry below the first.
ShortPaths ==
    {<<>>, <<FieldPath(0)>>, <<FieldPath(1)>>, <<FieldPath(0), IndexPath(0, TRUE)>>}

\* A Difference: its Path, its ChangeType, and the value it carries (the
\* OldValue of a removal, the NewValue otherwise).
Differences ==
    [Path : ShortPaths, ChangeType : ChangeTypes, Value : {"v", "w"}]

NoCmp == [ab |-> 0, ba |-> 0, bc |-> 0, cb |-> 0, ac |-> 0, ca |-> 0, aa |-> 0]


IdleCompare ==
    /\ exp = "idle" /\ opA = 0 /\ opB = 0 /\ opC = 0
    /\ cpc = "idle" /\ cmp = NoCmp

IdleSort == patch = <<>> /\ spc = "idle" /\ moved = FALSE

\* ------------------------------------------------------------ SpecCompare
InitCompareOperands ==
    \/ /\ exp = "parts"
       /\ opA \in PathParts /\ opB \in PathParts /\ opC \in PathParts
    \/ /\ exp = "paths"
       /\ opA \in Paths /\ opB \in Paths /\ opC \in Paths
    \/ /\ exp = "differences"
       /\ opA \in Differences /\ opB \in Differences /\ opC \in Differences

ComparePathParts ==
    /\ exp = "parts" /\ cpc = "args"
    /\ cmp' = [ab |-> pathPartCompare(opA, opB), ba |-> pathPartCompare(opB, opA),
               bc |-> pathPartCompare(opB, opC), cb |-> pathPartCompare(opC, opB),
               ac |-> pathPartCompare(opA, opC), ca |-> pathPartCompare(opC, opA),
               aa |-> pathPartCompare(opA, opA)]
    /\ cpc' = "compared"
    /\ UNCHANGED <<exp, opA, opB, opC, sortVars, mergeVars>>

ComparePaths ==
    /\ exp = "paths" /\ cpc = "args"
    /\ cmp' = [ab |-> pathIsLess(opA, opB), ba |-> pathIsLess(opB, opA),
               bc |-> pathIsLess(opB, opC), cb |-> pathIsLess(opC, opB),
               ac |-> pathIsLess(opA, opC), ca |-> pathIsLess(opC, opA),
               aa |-> pathIsLess(opA, opA)]
    /\ cpc' = "compared"
    /\ UNCHANGED <<exp, opA, opB, opC, sortVars, mergeVars>>

CompareDifferences ==
    /\ exp = "differences" /\ cpc = "args"
    /\ LET ps == <<opA, opB, opC>>
       IN cmp' = [ab |-> Less(ps, 1, 2), ba |-> Less(ps, 2, 1),
                  bc |-> Less(ps, 2, 3), cb |-> Less(ps, 3, 2),
                  ac |-> Less(ps, 1, 3), ca |-> Less(ps, 3, 1),
                  aa |-> Less(ps, 1, 1)]
    /\ cpc' = "compared"
    /\ UNCHANGED <<exp, opA, opB, opC, sortVars, mergeVars>>

NextCompare == ComparePathParts \/ ComparePaths \/ CompareDifferences

\* --------------------------------------------------------------- SpecSort
\* sort.Sort(PatchSort{patch, format}) as any run of exchanges of two
\* neighbours that Less finds out of order, until it finds none.
Inversions(ps) == {i \in 1..(Len(ps) - 1) : Less(ps, i + 1, i)}

SortSwap ==
    /\ spc = "sorting"
    /\ \E i \in Inversions(patch) : patch' = Swap(patch, i, i + 1)
    /\ moved' = TRUE
    /\ UNCHANGED <<spc, compareVars, mergeVars>>

SortDone ==
    /\ spc = "sorting"
    /\ Inversions(patch) = {}
    /\ spc' = "sorted"
    /\ UNCHANGED <<patch, moved, compareVars, mergeVars>>

NextSort == SortSwap \/ SortDone


\* -------------------------------------------------------------- SpecMerge
Tables == 1..NumTables

\* A table is the content it holds and whether it is marked in conflict; the
\* contents of the three roots are told apart by number. NoTable stands for a
\* name the root does not hold, and for MergeTable's nil table.
Table(v) == [val |-> v, conflicted |-> FALSE]
NoTable == Table(0)
None == <<>>
Some(x) == <<x>>

\* (ancestor, cm1, cm2) contents of one table name, up to renaming: a content
\* first met is numbered one above the contents met before it.
TablePatterns ==
    {p \in [1..3 -> 0..3] :
        \A i \in 1..3 :
            p[i] # 0 =>
                \/ \E j \in 1..(i - 1) : p[j] = p[i]
                \/ p[i] = 1 + Cardinality({p[j] : j \in 1..(i - 1)} \ {0})}

\* RootValue: PutTable, RemoveTables and HasTable on an immutable mapping.
PutTable(r, tblName, tbl) == [r EXCEPT ![tblName] = tbl]
RemoveTables(r, tblName) == [r EXCEPT ![tblName] = NoTable]
HasTable(r, tblName) == r[tblName] # NoTable

\* doltdb.UnionTableNames: the names either root holds, in some order.
UnionTables == {t \in Tables : HasTable(cm1Root, t) \/ HasTable(cm2Root, t)}
Orders(S) ==
    {s \in [1..Cardinality(S) -> S] : \A i, j \in 1..Cardinality(S) : s[i] = s[j] => i = j}

Err(kind, op, tblName) == [kind |-> kind, op |-> op, table |-> tblName]
MergeStats(operation, conflicts) == [Operation |-> operation, Conflicts |-> conflicts]
NoStats == MergeStats("none", 0)

\* Merger.MergeTable: the table-level three-way merge of one name.
MergeTable(tblName) ==
    LET a == ancRoot[tblName]
        x == cm1Root[tblName]
        y == cm2Root[tblName]
        result(tbl, st) == [err |-> None, table |-> tbl, stats |-> st]
    IN IF "MergeTable" \in brokenOps
       THEN [err |-> Some(Err("StorageFailure", "MergeTable", tblName)),
             table |-> NoTable, stats |-> NoStats]
       ELSE IF x = y THEN result(x, MergeStats("Unchanged", 0))
       ELSE IF a = NoTable
       THEN IF x = NoTable THEN result(y, MergeStats("TableAdded", 0))
            ELSE IF y = NoTable THEN result(x, MergeStats("Unchanged", 0))
            ELSE [err |-> Some(Err("TableMergeFailure", "MergeTable", tblName)),
                  table |-> NoTable, stats |-> NoStats]
       ELSE IF x = a
       THEN IF y = NoTable THEN result(NoTable, NoStats)
            ELSE result(y, MergeStats("Modified", 0))
       ELSE IF y = a
       THEN IF x = NoTable THEN result(NoTable, NoStats)
            ELSE result(x, MergeStats("Modified", 0))
       ELSE result([a EXCEPT !.conflicted = TRUE], MergeStats("Modified", 1))

NoRet == [root |-> None, stats |-> None, err |-> None]
ReturnErr(e) == [root |-> None, stats |-> None, err |-> Some(e)]
NoOutcome == [kind |-> "none", root |-> None, stats |-> None, err |-> None]
NoFirst == [tblNames |-> <<>>, outcome |-> NoOutcome]

\* One call MergeCommits made: the operation, the table name, the error it
\* returned (None when it succeeded).
Call(op, tblName, err) == [op |-> op, table |-> tblName, err |-> err]

IdleMerge ==
    /\ ancRoot = <<>> /\ cm1Root = <<>> /\ cm2Root = <<>> /\ brokenOps = {}
    /\ tblNames = <<>> /\ idx = 0 /\ root = <<>> /\ tblToStats = <<>>
    /\ mergedTable = NoTable /\ stats = NoStats /\ pc = "idle" /\ ret = NoRet
    /\ calls = <<>> /\ run = 0 /\ first = NoFirst

\* The calls of MergeCommits that can return an error: those made once, before
\* the loop, and those made for each table name.
SetupOps == {"NewMerger", "GetRootValue", "UnionTableNames"}
LoopOps == {"MergeTable", "PutTable", "HasTable", "RemoveTables"}

\* The storage either fails one of the calls made before the loop, or fails
\* every call of some of the operations of the loop (of none, when it is sound).
Faults == {{o} : o \in SetupOps} \cup SUBSET LoopOps

InitMerge ==
    /\ \E pat \in [Tables -> TablePatterns] :
          /\ ancRoot = [t \in Tables |-> Table(pat[t][1])]
          /\ cm1Root = [t \in Tables |-> Table(pat[t][2])]
          /\ cm2Root = [t \in Tables |-> Table(pat[t][3])]
    /\ brokenOps \in Faults
    /\ tblNames = <<>> /\ idx = 0 /\ root = <<>> /\ tblToStats = <<>>
    /\ mergedTable = NoTable /\ stats = NoStats /\ pc = "start" /\ ret = NoRet
    /\ calls = <<>> /\ run = 1 /\ first = NoFirst

\* merge.go:30-54: the merger, the two roots, the union of their table names.
Start ==
    /\ pc = "start"
    /\ IF brokenOps \cap SetupOps # {}
       THEN /\ ret' = ReturnErr(Err("StorageFailure",
                                    CHOOSE o \in SetupOps : o \in brokenOps, 0))
            /\ pc' = "done"
            /\ UNCHANGED <<tblNames, idx, root, tblToStats>>
       ELSE /\ root' = cm1Root
            /\ tblNames' \in Orders(UnionTables)
            /\ tblToStats' = <<>>
            /\ idx' = 1
            /\ pc' = "loop"
            /\ UNCHANGED ret
    /\ UNCHANGED <<ancRoot, cm1Root, cm2Root, brokenOps, mergedTable, stats,
                   calls, run, first, compareVars, sortVars>>

\* merge.go:57-62: the next table name's MergeTable.
CallMergeTable ==
    /\ pc = "loop" /\ idx <= Len(tblNames)
    /\ LET tblName == tblNames[idx]
           m == MergeTable(tblName)
       IN IF m.err # None
          THEN /\ ret' = ReturnErr(m.err[1])
               /\ pc' = "done"
               /\ calls' = Append(calls, Call("MergeTable", tblName, m.err))
               /\ UNCHANGED <<mergedTable, stats>>
          ELSE /\ mergedTable' = m.table
               /\ stats' = m.stats
               /\ pc' = IF m.table # NoTable THEN "put" ELSE "has"
               /\ calls' = Append(calls, Call("MergeTable", tblName, None))
               /\ UNCHANGED ret
    /\ UNCHANGED <<ancRoot, cm1Root, cm2Root, brokenOps, tblNames, idx, root,
                   tblToStats, run, first, compareVars, sortVars>>

SetStats(m, tblName, st) ==
    [t \in DOMAIN m \cup {tblName} |-> IF t = tblName THEN st ELSE m[t]]

\* CallPutTable returning, with PutTable's error, the root and stats built so
\* far.
CallPutTable_ReturnsPartial ==
    /\ pc = "put"
    /\ LET tblName == tblNames[idx]
       IN /\ tblToStats' = SetStats(tblToStats, tblName, stats)
          /\ IF "PutTable" \in brokenOps
             THEN /\ ret' = [root |-> Some(root), stats |-> Some(tblToStats'),
                             err |-> Some(Err("StorageFailure", "PutTable", tblName))]
                  /\ pc' = "done"
                  /\ calls' = Append(calls, Call("PutTable", tblName,
                                            Some(Err("StorageFailure", "PutTable", tblName))))
                  /\ UNCHANGED <<root, idx>>
             ELSE /\ root' = PutTable(root, tblName, mergedTable)
                  /\ idx' = idx + 1
                  /\ pc' = "loop"
                  /\ calls' = Append(calls, Call("PutTable", tblName, None))
                  /\ UNCHANGED ret
    /\ UNCHANGED <<ancRoot, cm1Root, cm2Root, brokenOps, tblNames, mergedTable,
                   stats, run, first, compareVars, sortVars>>

\* merge.go:64-72: a merged table is put into the root.
CallPutTable ==
    /\ pc = "put"
    /\ LET tblName == tblNames[idx]
       IN /\ tblToStats' = SetStats(tblToStats, tblName, stats)
          /\ IF "PutTable" \in brokenOps
             THEN /\ ret' = ReturnErr(Err("StorageFailure", "PutTable", tblName))
                  /\ pc' = "done"
                  /\ calls' = Append(calls, Call("PutTable", tblName,
                                            Some(Err("StorageFailure", "PutTable", tblName))))
                  /\ UNCHANGED <<root, idx>>
             ELSE /\ root' = PutTable(root, tblName, mergedTable)
                  /\ idx' = idx + 1
                  /\ pc' = "loop"
                  /\ calls' = Append(calls, Call("PutTable", tblName, None))
                  /\ UNCHANGED ret
    /\ UNCHANGED <<ancRoot, cm1Root, cm2Root, brokenOps, tblNames, mergedTable,
                   stats, run, first, compareVars, sortVars>>

\* merge.go:73-75 and 82-84: no merged table; does the root hold the name?
CallHasTable ==
    /\ pc = "has"
    /\ LET tblName == tblNames[idx]
       IN IF "HasTable" \in brokenOps
          THEN /\ ret' = ReturnErr(Err("StorageFailure", "HasTable", tblName))
               /\ pc' = "done"
               /\ calls' = Append(calls, Call("HasTable", tblName,
                                            Some(Err("StorageFailure", "HasTable", tblName))))
          ELSE /\ pc' = IF HasTable(root, tblName) THEN "remove" ELSE "panic"
               /\ calls' = Append(calls, Call("HasTable", tblName, None))
               /\ UNCHANGED ret
    /\ UNCHANGED <<ancRoot, cm1Root, cm2Root, brokenOps, tblNames, idx, root,
                   tblToStats, mergedTable, stats, run, first, compareVars,
                   sortVars>>

\* CallRemoveTables removing the table from cm1's root, not from the root
\* merged so far.
CallRemoveTables_FromCm1Root ==
    /\ pc = "remove"
    /\ LET tblName == tblNames[idx]
       IN /\ tblToStats' = SetStats(tblToStats, tblName, MergeStats("TableRemoved", 0))
          /\ IF "RemoveTables" \in brokenOps
             THEN /\ ret' = ReturnErr(Err("StorageFailure", "RemoveTables", tblName))
                  /\ pc' = "done"
                  /\ calls' = Append(calls, Call("RemoveTables", tblName,
                                            Some(Err("StorageFailure", "RemoveTables", tblName))))
                  /\ UNCHANGED <<root, idx>>
             ELSE /\ root' = RemoveTables(cm1Root, tblName)
                  /\ idx' = idx + 1
                  /\ pc' = "loop"
                  /\ calls' = Append(calls, Call("RemoveTables", tblName, None))
                  /\ UNCHANGED ret
    /\ UNCHANGED <<ancRoot, cm1Root, cm2Root, brokenOps, tblNames, mergedTable,
                   stats, run, first, compareVars, sortVars>>

\* merge.go:76-81: the table is removed from the root.
CallRemoveTables ==
    /\ pc = "remove"
    /\ LET tblName == tblNames[idx]
       IN /\ tblToStats' = SetStats(tblToStats, tblName, MergeStats("TableRemoved", 0))
          /\ IF "RemoveTables" \in brokenOps
             THEN /\ ret' = ReturnErr(Err("StorageFailure", "RemoveTables", tblName))
                  /\ pc' = "done"
                  /\ calls' = Append(calls, Call("RemoveTables", tblName,
                                            Some(Err("StorageFailure", "RemoveTables", tblName))))
                  /\ UNCHANGED <<root, idx>>
             ELSE /\ root' = RemoveTables(root, tblName)
                  /\ idx' = idx + 1
                  /\ pc' = "loop"
                  /\ calls' = Append(calls, Call("RemoveTables", tblName, None))
                  /\ UNCHANGED ret
    /\ UNCHANGED <<ancRoot, cm1Root, cm2Root, brokenOps, tblNames, mergedTable,
                   stats, run, first, compareVars, sortVars>>

\* merge.go:87: every name has been visited.
Return ==
    /\ pc = "loop" /\ idx > Len(tblNames)
    /\ ret' = [root |-> Some(root), stats |-> Some(tblToStats), err |-> None]
    /\ pc' = "done"
    /\ UNCHANGED <<ancRoot, cm1Root, cm2Root, brokenOps, tblNames, idx, root,
                   tblToStats, mergedTable, stats, calls, run, first,
                   compareVars, sortVars>>

\* What a caller sees of a finished run: the values returned, or the panic.
Outcome ==
    IF pc = "panic"
    THEN [kind |-> "panic", root |-> None, stats |-> None, err |-> None]
    ELSE [kind |-> "returned", root |-> ret.root, stats |-> ret.stats, err |-> ret.err]

\* The caller merges the same two commits a second time.
Again ==
    /\ pc \in {"done", "panic"} /\ run = 1
    /\ first' = [tblNames |-> tblNames, outcome |-> Outcome]
    /\ run' = 2
    /\ pc' = "start"
    /\ tblNames' = <<>> /\ idx' = 0 /\ root' = <<>> /\ tblToStats' = <<>>
    /\ mergedTable' = NoTable /\ stats' = NoStats /\ ret' = NoRet
    /\ calls' = <<>>
    /\ UNCHANGED <<ancRoot, cm1Root, cm2Root, brokenOps, compareVars, sortVars>>

NextMerge ==
    \/ Start \/ CallMergeTable \/ CallPutTable \/ CallHasTable
    \/ CallRemoveTables \/ Return \/ Again

\* --------------------------------------------------------- specifications
InitCompareSpec ==
    /\ InitCompareOperands /\ cpc = "args" /\ cmp = NoCmp
    /\ IdleSort /\ IdleMerge

InitSort ==
    /\ patch \in SeqsUpTo(Differences, MaxPatchLen)
    /\ spc = "sorting" /\ moved = FALSE
    /\ IdleCompare /\ IdleMerge

InitMergeSpec == InitMerge /\ IdleCompare /\ IdleSort

SpecCompare == InitCompareSpec /\ [][NextCompare]_vars
SpecSort == InitSort /\ [][NextSort]_vars
SpecMerge == InitMergeSpec /\ [][NextMerge]_vars

Init == InitCompareSpec \/ InitSort \/ InitMergeSpec
Next == NextCompare \/ NextSort \/ NextMerge
Spec == Init /\ [][Next]_vars


\* ------------------------------------------------------------- the claims
Rank(pp) ==
    CASE pp.kind = "FieldPath" -> 1
      [] pp.kind = "IndexPath" -> 2
      [] pp.kind = "HashIndexPath" -> 3

Min(S) == CHOOSE i \in S : \A j \in S : i <= j

\* Every arrangement of the differences of ps.
Arrangements(ps) ==
    {[i \in 1..Len(ps) |-> ps[f[i]]] : f \in Orders(1..Len(ps))}

\* No difference of q sorts, by Less, before one that precedes it.
ConsistentWithLess(q) ==
    \A i, j \in 1..Len(q) : i < j => ~Less(q, j, i)

\* No two differences of ps share both Path and ChangeType.
DistinctKeys(ps) ==
    \A i, j \in 1..Len(ps) :
        (i # j /\ PathEquals(ps[i].Path, ps[j].Path)) => ps[i].ChangeType # ps[j].ChangeType

\* C3: the sorted Patch is the only arrangement of its differences that is
\* consistent with PatchSort.Less, whatever differences it holds (two that
\* share Path and ChangeType and differ in value included).
C3_OneSortedOrder ==
    spc = "sorted" =>
        \A q \in Arrangements(patch) : ConsistentWithLess(q) => q = patch

\* C3, amended: when no two differences share both Path and ChangeType, the
\* sorted Patch is consistent with PatchSort.Less and is the only arrangement
\* of its differences that is.
C3_OneSortedOrderOfDistinctKeys ==
    (spc = "sorted" /\ DistinctKeys(patch)) =>
        /\ ConsistentWithLess(patch)
        /\ \A q \in Arrangements(patch) : ConsistentWithLess(q) => q = patch

C3_Witness ==
    /\ spc = "sorted" /\ moved /\ Len(patch) = 3 /\ DistinctKeys(patch)
    /\ PathEquals(patch[1].Path, patch[2].Path)
    /\ ~PathEquals(patch[2].Path, patch[3].Path)
    /\ patch[1].Value # patch[2].Value

\* C5: in a sorted Patch, of two differences with equal Paths a Removed one
\* comes before a Modified one, and a Modified one before an Added one.
C5_SamePathPrecedence ==
    spc = "sorted" =>
        \A i, j \in 1..Len(patch) :
            (i < j /\ PathEquals(patch[i].Path, patch[j].Path))
                => vals[patch[i].ChangeType] <= vals[patch[j].ChangeType]

C5_Witness ==
    /\ spc = "sorted" /\ moved /\ Len(patch) = 3
    /\ PathEquals(patch[1].Path, patch[2].Path)
    /\ PathEquals(patch[2].Path, patch[3].Path)
    /\ patch[1].ChangeType = "Removed"
    /\ patch[2].ChangeType = "Modified"
    /\ patch[3].ChangeType = "Added"

\* C4: pathPartCompare is antisymmetric (compare(a, b) = -compare(b, a)) and
\* transitive; pathIsLess and PatchSort.Less are transitive and never hold in
\* both directions of one pair.
C4_StrictOrder ==
    cpc = "compared" =>
        IF exp = "parts"
        THEN /\ cmp.ab = -cmp.ba
             /\ cmp.bc = -cmp.cb
             /\ cmp.ac = -cmp.ca
             /\ (cmp.ab = -1 /\ cmp.bc = -1) => cmp.ac = -1
             /\ (cmp.ab <= 0 /\ cmp.bc <= 0) => cmp.ac <= 0
             /\ (cmp.ab = 0 /\ cmp.bc = 0) => cmp.ac = 0
        ELSE /\ ~(cmp.ab /\ cmp.ba)
             /\ ~(cmp.bc /\ cmp.cb)
             /\ ~(cmp.ac /\ cmp.ca)
             /\ (cmp.ab /\ cmp.bc) => cmp.ac

C4_Witness ==
    /\ cpc = "compared" /\ exp = "differences"
    /\ PathEquals(opA.Path, opB.Path) /\ ~PathEquals(opB.Path, opC.Path)
    /\ cmp.ab /\ cmp.bc /\ cmp.ac

\* C6: the first position at which the parts of two Paths compare non-equal
\* decides pathIsLess; a strict prefix is less than the longer Path and the
\* longer Path is not less than it; no Path is less than itself.
C6_Lexicographic ==
    (cpc = "compared" /\ exp = "paths") =>
        LET n == IF Len(opA) < Len(opB) THEN Len(opA) ELSE Len(opB)
            D == {i \in 1..n : pathPartCompare(opA[i], opB[i]) # 0}
        IN /\ D # {} =>
                /\ cmp.ab = (pathPartCompare(opA[Min(D)], opB[Min(D)]) = -1)
                /\ cmp.ba = (pathPartCompare(opA[Min(D)], opB[Min(D)]) = 1)
           /\ (Len(opA) < Len(opB) /\ opA = SubSeq(opB, 1, Len(opA)))
                => (cmp.ab /\ ~cmp.ba)
           /\ ~cmp.aa

C6_Witness ==
    /\ cpc = "compared" /\ exp = "paths"
    /\ Len(opA) = 1 /\ Len(opB) = 2 /\ opA = SubSeq(opB, 1, 1)
    /\ cmp.ab /\ ~cmp.ba

\* C7: a FieldPath compares less than an IndexPath and than a HashIndexPath,
\* an IndexPath less than a HashIndexPath, whatever they hold; the reversed
\* arguments give 1; parts of different variants never compare 0.
C7_VariantOrder ==
    (cpc = "compared" /\ exp = "parts") =>
        /\ Rank(opA) < Rank(opB) => (cmp.ab = -1 /\ cmp.ba = 1)
        /\ Rank(opA) > Rank(opB) => (cmp.ab = 1 /\ cmp.ba = -1)
        /\ Rank(opA) # Rank(opB) => cmp.ab # 0

C7_Witness ==
    /\ cpc = "compared" /\ exp = "parts"
    /\ opA.kind = "FieldPath" /\ opB.kind = "IndexPath"
    /\ opC.kind = "HashIndexPath"
    /\ cmp.ab = -1 /\ cmp.bc = -1 /\ cmp.ac = -1 /\ cmp.ca = 1

\* C8: of two IndexPaths with equal Index, or two HashIndexPaths with equal
\* Hash, the one with IntoKey set is the lesser, and they compare 0 exactly
\* when their IntoKey flags agree; when Index (or Hash) differs, the result is
\* the same for every choice of the two IntoKey flags.
C8_IntoKeyTieBreak ==
    (cpc = "compared" /\ exp = "parts") =>
        /\ (opA.kind = "IndexPath" /\ opB.kind = "IndexPath") =>
              IF ValueEquals(opA.Index, opB.Index)
              THEN /\ (opA.IntoKey /\ ~opB.IntoKey) => cmp.ab = -1
                   /\ (~opA.IntoKey /\ opB.IntoKey) => cmp.ab = 1
                   /\ cmp.ab = 0 <=> (opA.IntoKey = opB.IntoKey)
              ELSE \A k1, k2 \in BOOLEAN :
                      pathPartCompare(IndexPath(opA.Index, k1),
                                      IndexPath(opB.Index, k2)) = cmp.ab
        /\ (opA.kind = "HashIndexPath" /\ opB.kind = "HashIndexPath") =>
              IF opA.Hash = opB.Hash
              THEN /\ (opA.IntoKey /\ ~opB.IntoKey) => cmp.ab = -1
                   /\ (~opA.IntoKey /\ opB.IntoKey) => cmp.ab = 1
                   /\ cmp.ab = 0 <=> (opA.IntoKey = opB.IntoKey)
              ELSE \A k1, k2 \in BOOLEAN :
                      pathPartCompare(HashIndexPath(opA.Hash, k1),
                                      HashIndexPath(opB.Hash, k2)) = cmp.ab

C8_Witness ==
    /\ cpc = "compared" /\ exp = "parts"
    /\ opA.kind = "IndexPath" /\ opB.kind = "IndexPath"
    /\ opA.Index = opB.Index /\ opA.IntoKey /\ ~opB.IntoKey
    /\ opC.kind = "HashIndexPath" /\ opC.IntoKey
    /\ cmp.ab = -1 /\ cmp.ba = 1


Finished == pc \in {"done", "panic"}
Succeeded(o) == o.kind = "returned" /\ o.err = None

\* The table was removed by one commit and left as the ancestor had it by the
\* other.
RemovedAndUnmodified(t) ==
    /\ ancRoot[t] # NoTable
    /\ \/ cm1Root[t] = NoTable /\ cm2Root[t] = ancRoot[t]
       \/ cm2Root[t] = NoTable /\ cm1Root[t] = ancRoot[t]

\* C1: every MergeTable call of a run precedes its first PutTable or
\* RemoveTables call.
C1_MergeTablesBeforeApplying ==
    \A i, j \in 1..Len(calls) :
        (i < j /\ calls[i].op \in {"PutTable", "RemoveTables"})
            => calls[j].op # "MergeTable"

\* C2: MergeCommits does not panic on a table that one commit removed and the
\* other left unmodified, whichever commit removed it, and a merge that
\* completes has removed the table from the merged root and holds
\* Operation=TableRemoved for it in the stats map.
C2_RemovedAndUnmodifiedIsRemoved ==
    /\ pc = "panic" => ~RemovedAndUnmodified(tblNames[idx])
    /\ (pc = "done" /\ ret.err = None) =>
          \A t \in Tables :
              RemovedAndUnmodified(t) =>
                  /\ ~HasTable(ret.root[1], t)
                  /\ t \in DOMAIN ret.stats[1]
                  /\ ret.stats[1][t].Operation = "TableRemoved"

\* The same failure: the same kind of error from the same operation.
SameError(e, f) ==
    IF e = None \/ f = None THEN e = f
    ELSE e[1].kind = f[1].kind /\ e[1].op = f[1].op

\* C9: two runs of MergeCommits on the same two commits, visiting the table
\* names in any two orders, end alike: both return the same merged root and
\* the same stats map, or both fail the same way with the same error.
C9_SameOutcomeInAnyOrder ==
    (run = 2 /\ Finished) =>
        /\ first.outcome.kind = Outcome.kind
        /\ first.outcome.root = Outcome.root
        /\ first.outcome.stats = Outcome.stats
        /\ SameError(first.outcome.err, Outcome.err)

\* C9, amended: the two runs both succeed or both fail (with an error or a
\* panic), and when they succeed they return the same merged root and the
\* same stats map.
C9_SameSuccessInAnyOrder ==
    (run = 2 /\ Finished) =>
        /\ Succeeded(first.outcome) <=> Succeeded(Outcome)
        /\ Succeeded(Outcome) =>
              /\ first.outcome.root = Outcome.root
              /\ first.outcome.stats = Outcome.stats

C9_Witness ==
    /\ run = 2 /\ pc = "done" /\ Succeeded(Outcome)
    /\ Len(tblNames) >= 2 /\ first.tblNames # tblNames
    /\ \E i, j \in 1..Len(calls) :
          calls[i].op = "PutTable" /\ calls[j].op = "RemoveTables"

\* C10: a call of MergeTable, PutTable, HasTable or RemoveTables that fails
\* ends MergeCommits with that error, no merged root and no stats map; a
\* merged root is returned only with no error, after every table name of the
\* union has been merged and applied without failure.
C10_ErrorReturnsNothing ==
    /\ (calls # <<>> /\ calls[Len(calls)].err # None) =>
          /\ pc = "done"
          /\ ret = [root |-> None, stats |-> None, err |-> calls[Len(calls)].err]
    /\ \A i \in 1..(Len(calls) - 1) : calls[i].err = None
    /\ (pc = "done" /\ ret.err # None) => (ret.root = None /\ ret.stats = None)
    /\ (pc = "done" /\ ret.root # None) =>
          /\ ret.err = None /\ ret.stats # None
          /\ \A i \in 1..Len(calls) : calls[i].err = None
          /\ \A t \in UnionTables :
                /\ \E i \in 1..Len(calls) :
                      calls[i].op = "MergeTable" /\ calls[i].table = t
                /\ \E i \in 1..Len(calls) :
                      calls[i].op \in {"PutTable", "RemoveTables"} /\ calls[i].table = t

C10_Witness ==
    /\ pc = "done" /\ calls # <<>>
    /\ calls[Len(calls)].op = "RemoveTables" /\ calls[Len(calls)].err # None
    /\ ret.err = calls[Len(calls)].err /\ ret.root = None
    /\ \E i \in 1..Len(calls) : calls[i].op = "PutTable" /\ calls[i].err = None

====
